---- MODULE Spec2Model ----
(***************************************************************************)
(* StatusLineWatcher (src/src/statusline-capture.ts): per agent, a         *)
(* filesystem watch on an append-only JSONL file, an offset of what was    *)
(* already consumed, and one "update" event per parsed line appended       *)
(* since.  The file system, the producer appending to the files and the    *)
(* delivery of change notifications are the environment.                   *)
(***************************************************************************)
EXTENDS Integers, Sequences, FiniteSets, TLC

(* ------------------------------ bounds -------------------------------- *)

\* Number of lines the producers append, over all files (Spec).
MaxLines == 2

\* Number of fs.watch handles the watcher attaches (Spec).
MaxHandles == 2

\* Number of characters written to the one file of SpecBatch.
MaxBatch == 5

(* ---------------------------- characters ------------------------------ *)

\* A file is a sequence of characters; one character is one UTF-16 code
\* unit of the decoded string.  "1" is a digit, "x" stands for "{" (never a
\* complete JSON text on its own line), " " is a space, FF is a form feed
\* (white space for String.prototype.trim, not for JSON), "e" stands for
\* U+00E9 (two bytes in UTF-8, one code unit), NL is the line feed.
NL == "\n"

FF == "f"

Agents == {"a", "b"}

\* What a producer appends in one write under Spec: a complete line, which
\* is JSON ("1") or is not JSON and holds a character longer than one byte
\* ("e").
Chunks == { <<"1", NL>>, <<"e", NL>> }

\* What a producer appends in one write under SpecBatch: any one character.
BatchChars == {"1", "x", " ", FF, NL}

\* White space of String.prototype.trim (ECMAScript WhiteSpace and
\* LineTerminator) among the characters of the model.
TrimWS == {" ", NL, FF}

\* White space JSON.parse skips around a value.
JsonWS == {" ", NL}

\* Buffer.length counts bytes: the UTF-8 length of one character.
Utf8Bytes(c) == IF c = "e" THEN 2 ELSE 1

RECURSIVE ByteLength(_)
ByteLength(s) ==
    IF s = <<>> THEN 0 ELSE Utf8Bytes(Head(s)) + ByteLength(Tail(s))

\* String.length counts UTF-16 code units.
StringLength(s) == Len(s)

\* String.prototype.slice(start), start >= 0.
Slice(s, start) == SubSeq(s, start + 1, Len(s))

RECURSIVE LeadIn(_, _)
LeadIn(s, ws) ==
    IF s # <<>> /\ Head(s) \in ws THEN 1 + LeadIn(Tail(s), ws) ELSE 0

RECURSIVE TrailIn(_, _)
TrailIn(s, ws) ==
    IF s # <<>> /\ s[Len(s)] \in ws
    THEN 1 + TrailIn(SubSeq(s, 1, Len(s) - 1), ws)
    ELSE 0

\* s without its leading and trailing characters of ws.
Strip(s, ws) == SubSeq(s, LeadIn(s, ws) + 1, Len(s) - TrailIn(s, ws))

\* String.prototype.trim.
Trim(s) == Strip(s, TrimWS)

\* String.prototype.split("\n"), each piece with the index in the file of
\* its first character (base is the index of the first character of s).
RECURSIVE Split(_, _)
Split(s, base) ==
    LET n == LeadIn(s, {"1", "x", " ", FF, "e"})   \* up to the first NL
    IN  IF n = Len(s)
        THEN << [text |-> s, pos |-> base] >>
        ELSE << [text |-> SubSeq(s, 1, n), pos |-> base] >>
             \o Split(SubSeq(s, n + 2, Len(s)), base + n + 1)

\* JSON.parse(line) returns (does not throw): over these characters the
\* JSON texts are the numbers 1, 11, ... with JSON white space around them.
JsonParses(line) ==
    LET v == Strip(line, JsonWS)
    IN  v # <<>> /\ \A i \in 1..Len(v) : v[i] = "1"

\* The value JSON.parse returns: the number, as its digits.
JsonValue(line) == Strip(line, JsonWS)

(* ------------------------------ paths --------------------------------- *)

\* join(statusLineDir(team), `${agentName}.jsonl`): one file per agent name.
statusLineLogPath(agentName) == <<"statusline", agentName, "jsonl">>

Paths == { statusLineLogPath(a) : a \in Agents }

(* ------------------------------ state --------------------------------- *)

VARIABLES
    files,        \* path -> content of the file (<<>> when absent)
    fexists,      \* path -> the file exists
    handles,      \* the handles fs.watch returned, in order: agentName, open
    watchers,     \* this.watchers: agentName -> index in handles
    fileOffsets,  \* this.fileOffsets: path -> offset
    stopped,      \* this.stopped
    lastOp,       \* the last operation of the watcher and its inputs
    emitted,      \* the update events the last operation emitted
    raised,       \* the last operation threw to its caller
    reg,          \* agentName -> the length of its file (in code units) when
                  \* watchAgent last read its size, 0 when that read failed,
                  \* -1 when watchAgent never got that far for the name
    hi            \* agentName -> the index in its file just after the last
                  \* character that a read emitted or rejected so far

vars ==
    << files, fexists, handles, watchers, fileOffsets, stopped,
       lastOp, emitted, raised, reg, hi >>

Init ==
    /\ files = [p \in Paths |-> <<>>]
    /\ fexists = [p \in Paths |-> FALSE]
    /\ handles = <<>>
    /\ watchers = <<>>
    /\ fileOffsets = <<>>
    /\ stopped = FALSE
    /\ lastOp = [op |-> "new"]
    /\ emitted = <<>>
    /\ raised = FALSE
    /\ reg = [a \in Agents |-> -1]
    /\ hi = [a \in Agents |-> 0]

\* Map.set, Map.delete, Map.get(k) ?? d on a function used as a Map.
MapSet(m, k, v) == [x \in DOMAIN m \cup {k} |-> IF x = k THEN v ELSE m[x]]

MapDelete(m, k) == [x \in DOMAIN m \ {k} |-> m[x]]

MapGetOr(m, k, d) == IF k \in DOMAIN m THEN m[k] ELSE d

\* The number of line feeds in s.
RECURSIVE CountNL(_)
CountNL(s) ==
    IF s = <<>> THEN 0 ELSE (IF Head(s) = NL THEN 1 ELSE 0) + CountNL(Tail(s))

RECURSIVE TotalLinesIn(_)
TotalLinesIn(S) ==
    IF S = {} THEN 0
    ELSE LET p == CHOOSE q \in S : TRUE
         IN  CountNL(files[p]) + TotalLinesIn(S \ {p})

TotalLines == TotalLinesIn(Paths)

(* --------------------------- the producer ----------------------------- *)

\* The external producer: open(path, "a").write(...) appends to the file,
\* creating it when absent.
ProducerAppend(p, chunk) ==
    /\ files' = [files EXCEPT ![p] = @ \o chunk]
    /\ fexists' = [fexists EXCEPT ![p] = TRUE]
    /\ UNCHANGED << handles, watchers, fileOffsets, stopped,
                    lastOp, emitted, raised, reg, hi >>

(* ---------------------------- watchAgent ------------------------------ *)

\* InitialOffset without the fallback: the size is used whether or not the
\* read succeeded.
InitialOffsetNoFallback(content, lenOk) == ByteLength(content)

\* Lines 98-104: readFileSync(filePath) returns a Buffer, whose length is
\* the size of the file in bytes; 0 when the read throws.
InitialOffset(content, lenOk) == IF lenOk THEN ByteLength(content) ELSE 0

\* Lines 106-117: the handle is stored under the agent's name when
\* fs.watch returned one; when fs.watch threw, this.watchers is untouched.
StoreWatcher(w, agentName, h, attachOk) ==
    IF attachOk THEN MapSet(w, agentName, h) ELSE w

\* AttachWatch that closes the handles already attached for the agent
\* before it attaches the new one.
AttachWatchClosePrevious(hs, agentName, attachOk) ==
    IF attachOk
    THEN Append([h \in DOMAIN hs |->
                    IF hs[h].agentName = agentName
                    THEN [hs[h] EXCEPT !.open = FALSE] ELSE hs[h]],
                [agentName |-> agentName, open |-> TRUE])
    ELSE hs

\* The handles after fs.watch(filePath, callback): a new open handle whose
\* callback is bound to agentName; nothing when fs.watch threw.
AttachWatch(hs, agentName, attachOk) ==
    IF attachOk THEN Append(hs, [agentName |-> agentName, open |-> TRUE]) ELSE hs

\* createOk: writeFileSync(filePath, "") succeeds; lenOk: readFileSync
\* succeeds; attachOk: fs.watch succeeds.
watchAgent(agentName, createOk, lenOk, attachOk) ==
    LET filePath == statusLineLogPath(agentName)
        op == [op |-> "watchAgent", agentName |-> agentName,
               lenOk |-> lenOk, attachOk |-> attachOk]
    IN  /\ fexists[filePath] => createOk
        /\ lastOp' = op
        /\ emitted' = <<>>
        /\ IF stopped
           THEN /\ raised' = FALSE
                /\ UNCHANGED << files, fexists, handles, watchers,
                                fileOffsets, stopped, reg, hi >>
           ELSE IF ~fexists[filePath] /\ ~createOk
           THEN \* writeFileSync throws, outside of any try block
                /\ raised' = TRUE
                /\ UNCHANGED << files, fexists, handles, watchers,
                                fileOffsets, stopped, reg, hi >>
           ELSE /\ raised' = FALSE
                /\ fexists' = [fexists EXCEPT ![filePath] = TRUE]
                /\ fileOffsets' =
                       MapSet(fileOffsets, filePath,
                              InitialOffset(files[filePath], lenOk))
                /\ handles' = AttachWatch(handles, agentName, attachOk)
                /\ watchers' =
                       StoreWatcher(watchers, agentName, Len(handles) + 1, attachOk)
                /\ reg' = [reg EXCEPT ![agentName] =
                              IF lenOk THEN Len(files[filePath]) ELSE 0]
                /\ UNCHANGED << files, stopped, hi >>

(* --------------------------- unwatchAgent ----------------------------- *)

\* watcher.close() on handle h.
CloseHandle(hs, h) == [hs EXCEPT ![h].open = FALSE]

\* Lines 124-128: the stored handle, if any, is closed and removed.
UnwatchHandles(hs, w, agentName) ==
    IF agentName \in DOMAIN w THEN CloseHandle(hs, w[agentName]) ELSE hs

\* UnwatchWatchers as stop() does it: clear() in place of delete(agentName).
UnwatchWatchersClear(w, agentName) == <<>>

UnwatchWatchers(w, agentName) == MapDelete(w, agentName)

\* UnwatchOffsets as stop() does it: clear() in place of delete(filePath).
UnwatchOffsetsClear(offs, agentName) == <<>>

\* Lines 129-130: the offset of the agent's file is deleted.
UnwatchOffsets(offs, agentName) == MapDelete(offs, statusLineLogPath(agentName))

unwatchAgent(agentName) ==
    /\ lastOp' = [op |-> "unwatchAgent", agentName |-> agentName]
    /\ emitted' = <<>>
    /\ raised' = FALSE
    /\ handles' = UnwatchHandles(handles, watchers, agentName)
    /\ watchers' = UnwatchWatchers(watchers, agentName)
    /\ fileOffsets' = UnwatchOffsets(fileOffsets, agentName)
    /\ UNCHANGED << files, fexists, stopped, reg, hi >>

(* ------------------------------- stop --------------------------------- *)

\* Lines 138-140: every handle stored in this.watchers is closed.
StopHandles(hs, w) ==
    [h \in DOMAIN hs |->
        IF \E a \in DOMAIN w : w[a] = h THEN [hs[h] EXCEPT !.open = FALSE] ELSE hs[h]]

stop ==
    /\ lastOp' = [op |-> "stop"]
    /\ emitted' = <<>>
    /\ raised' = FALSE
    /\ stopped' = TRUE
    /\ handles' = StopHandles(handles, watchers)
    /\ watchers' = <<>>
    /\ fileOffsets' = <<>>
    /\ UNCHANGED << files, fexists, reg, hi >>

(* --------------------------- readNewLines ----------------------------- *)

\* StoredOffset that forgets the stored offset: every read starts at the
\* beginning of the file.
StoredOffsetZero(offs, filePath) == 0

\* Line 151: this.fileOffsets.get(filePath) ?? 0.
StoredOffset(offs, filePath) == MapGetOr(offs, filePath, 0)

\* Line 152: content.slice(offset).
NewContent(content, offset) == Slice(content, offset)

\* Line 153: content is a string, so content.length counts code units.
NextOffset(content) == StringLength(content)

\* Line 157: newContent.trim().split("\n"); each line with its index in
\* the file.
BatchLines(newContent, offset) ==
    Split(Trim(newContent), offset + LeadIn(newContent, TrimWS))

\* Lines 158-171: blank lines are skipped, a line JSON.parse rejects is
\* logged and skipped, every other line is emitted.
LineEmits(line) == Trim(line) # <<>> /\ JsonParses(line)

\* EmitLines with the try around the loop: the first line JSON.parse
\* rejects ends the batch.
RECURSIVE EmitLinesAbort(_, _)
EmitLinesAbort(agentName, lines) ==
    IF lines = <<>> THEN <<>>
    ELSE IF Trim(Head(lines).text) = <<>> THEN EmitLinesAbort(agentName, Tail(lines))
    ELSE IF ~JsonParses(Head(lines).text) THEN <<>>
    ELSE << [agentName |-> agentName,
             data |-> JsonValue(Head(lines).text),
             pos |-> Head(lines).pos] >>
         \o EmitLinesAbort(agentName, Tail(lines))

RECURSIVE EmitLines(_, _)
EmitLines(agentName, lines) ==
    IF lines = <<>> THEN <<>>
    ELSE (IF LineEmits(Head(lines).text)
          THEN << [agentName |-> agentName,
                   data |-> JsonValue(Head(lines).text),
                   pos |-> Head(lines).pos] >>
          ELSE <<>>)
         \o EmitLines(agentName, Tail(lines))

\* Lines 155-171: the update events of one read.
UpdateEvents(agentName, newContent, offset) ==
    IF Trim(newContent) = <<>> THEN <<>>
    ELSE EmitLines(agentName, BatchLines(newContent, offset))

\* OffsetsAfterFailedRead with the offset reset in the catch.
OffsetsResetOnFailedRead(offs, filePath) == MapSet(offs, filePath, 0)

\* Lines 158-171: the index just after the last line of the batch that is
\* not blank (it was emitted or rejected), or n when that is further.
RECURSIVE ProcessedTo(_, _)
ProcessedTo(n, lines) ==
    IF lines = <<>> THEN n
    ELSE LET l == Head(lines)
             end == IF Trim(l.text) = <<>> THEN 0 ELSE l.pos + Len(l.text)
         IN  ProcessedTo(IF end > n THEN end ELSE n, Tail(lines))

\* Lines 172-175: the catch of a failed read logs and touches nothing.
OffsetsAfterFailedRead(offs, filePath) == offs

\* readOk: readFileSync(filePath, "utf-8") succeeds.
readNewLines(agentName, filePath, readOk) ==
    IF readOk
    THEN LET content == files[filePath]
             offset == StoredOffset(fileOffsets, filePath)
             newContent == NewContent(content, offset)
         IN  /\ fileOffsets' = MapSet(fileOffsets, filePath, NextOffset(content))
             /\ emitted' = UpdateEvents(agentName, newContent, offset)
             /\ hi' = [hi EXCEPT ![agentName] =
                          ProcessedTo(@, BatchLines(newContent, offset))]
    ELSE /\ emitted' = <<>>
         /\ fileOffsets' = OffsetsAfterFailedRead(fileOffsets, filePath)
         /\ UNCHANGED hi

\* The callback of an open handle runs: lines 107-111.
Notify(h, eventType, readOk) ==
    /\ h \in DOMAIN handles
    /\ handles[h].open
    /\ eventType = "rename" => readOk
    /\ lastOp' = [op |-> "notify", agentName |-> handles[h].agentName,
                  eventType |-> eventType, readOk |-> readOk]
    /\ raised' = FALSE
    /\ IF eventType = "change"
       THEN readNewLines(handles[h].agentName,
                         statusLineLogPath(handles[h].agentName), readOk)
       ELSE /\ emitted' = <<>>
            /\ UNCHANGED << fileOffsets, hi >>
    /\ UNCHANGED << files, fexists, handles, watchers, stopped, reg >>

(* --------------------------- specifications -------------------------- *)

\* The watcher with two agents, whole lines appended to their files, every
\* file system failure the code can meet.
Next ==
    \/ \E p \in Paths, chunk \in Chunks :
           TotalLines < MaxLines /\ ProducerAppend(p, chunk)
    \/ \E a \in Agents, createOk, lenOk, attachOk \in BOOLEAN :
           /\ attachOk => Len(handles) < MaxHandles
           /\ watchAgent(a, createOk, lenOk, attachOk)
    \/ \E a \in Agents : unwatchAgent(a)
    \/ stop
    \/ \E h \in 1..MaxHandles, eventType \in {"change", "rename"}, readOk \in BOOLEAN :
           Notify(h, eventType, readOk)

Spec == Init /\ [][Next]_vars

\* One agent whose file is written one character at a time, registered once
\* at any moment of the writing: readNewLines on every file content of
\* MaxBatch characters, from the offset of every registration and read.
NextBatch ==
    \/ \E c \in BatchChars :
           /\ Len(files[statusLineLogPath("a")]) < MaxBatch
           /\ ProducerAppend(statusLineLogPath("a"), <<c>>)
    \/ \E lenOk \in BOOLEAN :
           /\ handles = <<>>
           /\ watchAgent("a", TRUE, lenOk, TRUE)
    \/ Notify(1, "change", TRUE)

SpecBatch == Init /\ [][NextBatch]_vars

(* ------------------------- steps and helpers -------------------------- *)

\* A change notification whose read succeeds, delivered for agentName.
ReadStep(agentName) ==
    \E h \in DOMAIN handles :
        handles[h].agentName = agentName /\ Notify(h, "change", TRUE)

\* A change notification whose read fails, delivered for agentName.
FailedReadStep(agentName) ==
    \E h \in DOMAIN handles :
        handles[h].agentName = agentName /\ Notify(h, "change", FALSE)

\* A watchAgent call that passes the stopped check (line 89).
WatchStep(agentName, lenOk, attachOk) ==
    /\ ~stopped
    /\ \E createOk \in BOOLEAN : watchAgent(agentName, createOk, lenOk, attachOk)

\* agentName has a stored handle, and that handle is open.
Registered(agentName) ==
    /\ agentName \in DOMAIN watchers
    /\ handles[watchers[agentName]].open

\* The lines of a chunk that starts at index offset of the file, as the
\* producer wrote them: split at the line feeds, nothing trimmed.
RawLines(chunk, offset) == Split(chunk, offset)

\* Event e was made from a piece of line r.
EventOfLine(e, r) == e.pos >= r.pos /\ e.pos < r.pos + Len(r.text)

Blank(text) == \A i \in 1..Len(text) : text[i] \in TrimWS

WellFormed(r) == JsonParses(r.text)

RECURSIVE Increasing(_)
Increasing(evs) ==
    Len(evs) < 2 \/ (evs[1].pos < evs[2].pos /\ Increasing(Tail(evs)))

(* ------------------------------- C1 ----------------------------------- *)

\* C1: no update event carries a line that was already in the source's
\* file when the watchAgent call that registered the source read the
\* file's size (reg, in the code units in which events are positioned; a
\* registration whose size read failed protects nothing, C8).
C1_NoReplay ==
    \A i \in 1..Len(emitted) :
        reg[emitted[i].agentName] >= 0
            => emitted[i].pos >= reg[emitted[i].agentName]

(* ------------------------------- C2 ----------------------------------- *)

\* The lines of the chunk that the batch emits, as the claim has it: the
\* well-formed ones.
C2_wellFormedLines(chunk, offset) ==
    SelectSeq(RawLines(chunk, offset), WellFormed)

\* The events are those of the lines sel, one each and in order.
C2_eventsAre(evs, sel, agentName) ==
    /\ Len(evs) = Len(sel)
    /\ \A i \in 1..Len(evs) :
           /\ evs[i].agentName = agentName
           /\ EventOfLine(evs[i], sel[i])
           /\ evs[i].data = Strip(sel[i].text, TrimWS)

\* C2 as claimed: one readNewLines over a newly appended chunk emits
\* exactly one update event per line of the chunk that is well-formed
\* JSON, in file order, and none for any other line.
C2_BatchExact ==
    [][ \A a \in Agents :
          ReadStep(a) =>
            LET p == statusLineLogPath(a)
                offset == StoredOffset(fileOffsets, p)
            IN  C2_eventsAre(emitted',
                             C2_wellFormedLines(Slice(files[p], offset), offset), a)
      ]_vars

\* Line k of the raw lines is the first (last) one that is not blank.
C2_firstNonBlank(raw, k) ==
    ~Blank(raw[k].text) /\ \A j \in 1..(k - 1) : Blank(raw[j].text)

C2_lastNonBlank(raw, k) ==
    ~Blank(raw[k].text) /\ \A j \in (k + 1)..Len(raw) : Blank(raw[j].text)

\* The text of line k that is parsed: trim() of the whole chunk took the
\* white space before the first non-blank line's text and after the last
\* one's.
C2_parsedText(raw, k) ==
    LET t == raw[k].text
        lead == IF C2_firstNonBlank(raw, k) THEN LeadIn(t, TrimWS) ELSE 0
        trail == IF C2_lastNonBlank(raw, k) THEN TrailIn(t, TrimWS) ELSE 0
    IN  SubSeq(t, lead + 1, Len(t) - trail)

RECURSIVE C2_emittingFrom(_, _)
C2_emittingFrom(raw, k) ==
    IF k > Len(raw) THEN <<>>
    ELSE (IF ~Blank(raw[k].text) /\ JsonParses(C2_parsedText(raw, k))
          THEN << raw[k] >> ELSE <<>>)
         \o C2_emittingFrom(raw, k + 1)

\* C2 amended: exactly one event per non-blank line that is JSON once the
\* white space (of trim) at the start of the chunk's first non-blank line
\* and at the end of its last non-blank line is removed, in file order,
\* none for any other line; every well-formed line is among them, wherever
\* the malformed lines stand.
C2_BatchResilient ==
    [][ \A a \in Agents :
          ReadStep(a) =>
            LET p == statusLineLogPath(a)
                offset == StoredOffset(fileOffsets, p)
                raw == RawLines(Slice(files[p], offset), offset)
            IN  /\ C2_eventsAre(emitted', C2_emittingFrom(raw, 1), a)
                /\ \A k \in 1..Len(raw) :
                       WellFormed(raw[k]) =>
                           \E i \in 1..Len(emitted') : EventOfLine(emitted'[i], raw[k])
      ]_vars

\* A read of the chunk 1, x, 1 from the start of the file emitted the first
\* and the third line.
C2_Witness ==
    /\ lastOp.op = "notify" /\ lastOp.readOk
    /\ files[statusLineLogPath("a")] = <<"1", NL, "x", NL, "1">>
    /\ Len(emitted) = 2
    /\ emitted[1].pos = 0
    /\ emitted[2].pos = 4

(* ------------------------------- C3 ----------------------------------- *)

\* C3: while a source stays registered, its stored offset never decreases,
\* over change notifications, appends and repeated watchAgent calls whose
\* size read succeeds.
C3_OffsetMonotone ==
    [][ \A a \in Agents :
          LET p == statusLineLogPath(a)
          IN  ( /\ Registered(a)
                /\ Registered(a)'
                /\ p \in DOMAIN fileOffsets
                /\ p \in DOMAIN fileOffsets'
                /\ ~(\E attachOk \in BOOLEAN : WatchStep(a, FALSE, attachOk)) )
              => fileOffsets'[p] >= fileOffsets[p]
      ]_vars

(* ------------------------------- C4 ----------------------------------- *)

\* C4: after every successful read, the stored offset is the length of the
\* file in bytes.
C4_OffsetIsByteLength ==
    [][ \A a \in Agents :
          ReadStep(a) =>
              fileOffsets'[statusLineLogPath(a)]
                  = ByteLength(files[statusLineLogPath(a)])
      ]_vars

(* ------------------------------- C5 ----------------------------------- *)

\* C5: once stop() has returned, no operation emits an update event.
C5_NoEventsAfterStop == stopped => emitted = <<>>

(* ------------------------------- C6 ----------------------------------- *)

\* C6: after stop(), watchAgent(name) does not raise and changes neither
\* the registry, the offsets, the handles, the stopped flag nor the files,
\* and the operation that follows it emits no event for name.
C6_PostStopRefusal ==
    [][ stopped =>
          /\ \A a \in Agents, createOk, lenOk, attachOk \in BOOLEAN :
                 watchAgent(a, createOk, lenOk, attachOk) =>
                     /\ ~raised'
                     /\ UNCHANGED << handles, watchers, fileOffsets, stopped,
                                     files, fexists >>
          /\ lastOp.op = "watchAgent" =>
                 \A i \in 1..Len(emitted') :
                     emitted'[i].agentName # lastOp.agentName
      ]_vars

(* ------------------------------- C7 ----------------------------------- *)

C9_AttachFailureUnregisters ==
    ( /\ lastOp.op = "watchAgent"
      /\ ~lastOp.attachOk
      /\ ~raised )
        => lastOp.agentName \notin DOMAIN watchers

(* ------------------------------- C10 ---------------------------------- *)

\* C10: a change notification whose read fails emits nothing, raises
\* nothing, and leaves the offsets, the registry and the handles as they
\* were, the handle that delivered it still open.
C10_ReadFailureNoOp ==
    [][ \A h \in DOMAIN handles :
          Notify(h, "change", FALSE) =>
            /\ emitted' = <<>>
            /\ ~raised'
            /\ UNCHANGED << fileOffsets, watchers, handles, stopped >>
            /\ handles'[h].open
      ]_vars

\* A read failed for a registered agent whose file holds a line not yet
\* consumed.
C10_Witness ==
    /\ lastOp.op = "notify" /\ lastOp.eventType = "change" /\ ~lastOp.readOk
    /\ Registered(lastOp.agentName)
    /\ statusLineLogPath(lastOp.agentName) \in DOMAIN fileOffsets
    /\ fileOffsets[statusLineLogPath(lastOp.agentName)]
           < Len(files[statusLineLogPath(lastOp.agentName)])

(* ------------------------------- C11 ---------------------------------- *)

\* C11: in every state after stop(), no handle the watcher ever attached
\* is open, the registry and the offsets are empty, the flag is set.
C11_StopClosesAll ==
    stopped =>
        /\ \A h \in DOMAIN handles : ~handles[h].open
        /\ watchers = <<>>
        /\ fileOffsets = <<>>

(* ------------------------------- C12 ---------------------------------- *)

\* C12: while a source is registered, its stored offset changes only in a
\* successful read of that source; neither a further watchAgent for it nor
\* an operation on another source changes it.
C12_OffsetWrittenByReadOnly ==
    [][ \A a \in Agents :
          LET p == statusLineLogPath(a)
          IN  ( /\ Registered(a)
                /\ p \in DOMAIN fileOffsets
                /\ p \in DOMAIN fileOffsets'
                /\ fileOffsets'[p] # fileOffsets[p] )
              => ReadStep(a)
      ]_vars

(* ------------------------------- C13 ---------------------------------- *)

\* C13: on return of unwatchAgent(name), no handle attached for name is
\* open and no offset is stored for its file.
C13_UnregisteredAfterUnwatch ==
    \A a \in Agents :
        lastOp = [op |-> "unwatchAgent", agentName |-> a] =>
            /\ \A h \in DOMAIN handles :
                   handles[h].agentName = a => ~handles[h].open
            /\ statusLineLogPath(a) \notin DOMAIN fileOffsets

(* ------------------------------- C14 ---------------------------------- *)

\* C14: a watchAgent(name) whose size read and fs.watch succeed, on a name
\* that has a stored handle, stores the newly attached handle in its place
\* and sets the offset to the size of the file; the previous handle is not
\* closed: it stays open and no registry entry refers to it.
C14_OverwriteWithoutClosing ==
    [][ \A a \in Agents :
          ( a \in DOMAIN watchers /\ WatchStep(a, TRUE, TRUE) /\ ~raised' ) =>
            LET old == watchers[a]
                new == watchers'[a]
            IN  /\ new = Len(handles) + 1
                /\ handles' = Append(handles, [agentName |-> a, open |-> TRUE])
                /\ handles[old].open /\ handles'[old].open
                /\ \A b \in DOMAIN watchers' : watchers'[b] # old
                /\ fileOffsets'[statusLineLogPath(a)]
                       = ByteLength(files[statusLineLogPath(a)])
      ]_vars

\* A second watchAgent on a registered name has returned: two open handles
\* for the name, the second one stored, the offset at the size of a file
\* that is not empty.
C14_Witness ==
    /\ lastOp = [op |-> "watchAgent", agentName |-> "a",
                 lenOk |-> TRUE, attachOk |-> TRUE]
    /\ Len(handles) = 2
    /\ \A h \in 1..2 : handles[h] = [agentName |-> "a", open |-> TRUE]
    /\ watchers = [x \in {"a"} |-> 2]
    /\ fileOffsets[statusLineLogPath("a")] > 0

(* ------------------------------- C15 ---------------------------------- *)

\* An operation on source a alone: a notification delivered by one of its
\* handles (read succeeding or failing, or a rename), a watchAgent call for
\* it (attach succeeding or failing), an unwatchAgent call for it.
C15_stepOf(a) ==
    \/ \E h \in DOMAIN handles, eventType \in {"change", "rename"}, readOk \in BOOLEAN :
           handles[h].agentName = a /\ Notify(h, eventType, readOk)
    \/ \E createOk, lenOk, attachOk \in BOOLEAN :
           watchAgent(a, createOk, lenOk, attachOk)
    \/ unwatchAgent(a)

\* Event e carries a line of the file at path p: its data is the text at
\* its position, up to the end of the line.
C15_lineOfFile(e, p) ==
    \E k \in 1..Len(RawLines(files[p], 0)) :
        LET r == RawLines(files[p], 0)[k]
        IN  /\ EventOfLine(e, r)
            /\ e.data = Strip(SubSeq(files[p], e.pos + 1, r.pos + Len(r.text)), TrimWS)

\* C15: an operation on source a leaves the stored handle, the handles and
\* the offset of every other source b as they were, and every event it
\* emits carries agentName a and a line of a's file.
C15_SourcesIndependent ==
    [][ \A a \in Agents :
          C15_stepOf(a) =>
            /\ \A b \in Agents \ {a} :
                   /\ (b \in DOMAIN watchers') = (b \in DOMAIN watchers)
                   /\ b \in DOMAIN watchers => watchers'[b] = watchers[b]
                   /\ (statusLineLogPath(b) \in DOMAIN fileOffsets')
                          = (statusLineLogPath(b) \in DOMAIN fileOffsets)
                   /\ statusLineLogPath(b) \in DOMAIN fileOffsets =>
                          fileOffsets'[statusLineLogPath(b)]
                              = fileOffsets[statusLineLogPath(b)]
                   /\ \A h \in DOMAIN handles :
                          handles[h].agentName = b => handles'[h] = handles[h]
            /\ \A i \in 1..Len(emitted') :
                   /\ emitted'[i].agentName = a
                   /\ C15_lineOfFile(emitted'[i], statusLineLogPath(a))
      ]_vars

\* A read for a has emitted a line of a's file while b is registered with
\* a line of its own file not yet consumed.
C15_Witness ==
    /\ lastOp = [op |-> "notify", agentName |-> "a",
                 eventType |-> "change", readOk |-> TRUE]
    /\ emitted # <<>>
    /\ Registered("b")
    /\ fileOffsets[statusLineLogPath("b")] < Len(files[statusLineLogPath("b")])

(* ------------------------------- C16 ---------------------------------- *)

\* C16 as stated: for a source registered by a single watchAgent call, a
\* line is emitted at most once and a line whose parse failed is never
\* emitted later: every event of a read lies on a line after the line of
\* the last text an earlier read emitted or rejected.
C16_AtMostOncePerLine ==
    [][\A a \in Agents :
          ReadStep(a)
          => /\ Increasing(emitted')
             /\ \A i \in DOMAIN emitted' :
                    hi[a] > 0
                    => /\ emitted'[i].pos >= hi[a]
                       /\ CountNL(SubSeq(files[statusLineLogPath(a)],
                                         hi[a], emitted'[i].pos)) > 0]_vars

\* C16, amended: for a source registered by a single watchAgent call and
\* whose file is only appended to, no text of the file is processed twice:
\* every event of a read starts at or after the end of the last text an
\* earlier read emitted or rejected, and the events of one read are in
\* file order. (For lines appended whole this is at most once per line; a
\* line appended in pieces with a read in between is emitted piece by
\* piece.)
C16_AtMostOncePerText ==
    [][\A a \in Agents :
          ReadStep(a)
          => /\ Increasing(emitted')
             /\ \A i \in DOMAIN emitted' : emitted'[i].pos >= hi[a]]_vars

\* Two lines were read by two reads after one registration at the start of
\* the file: an earlier read emitted the first line, the last read emitted
\* only the second.
C16_Witness ==
    /\ files[statusLineLogPath("a")] = <<"1", NL, "1", NL>>
    /\ reg["a"] = 0
    /\ Len(handles) = 1
    /\ lastOp.op = "notify"
    /\ Len(emitted) = 1
    /\ emitted[1].pos = 2
    /\ hi["a"] = 3

(* ------------------------------- C17 ---------------------------------- *)

\* C17: for a source registered with its size read and watch succeeding,
\* whose file then receives complete lines, the first change notification
\* processed after the appends emits every well-formed line appended after
\* the registration, once each.
C17_CompleteDelivery ==
    [][ \A a \in Agents :
          LET p == statusLineLogPath(a)
              raw == RawLines(files[p], 0)
          IN  ( /\ lastOp = [op |-> "watchAgent", agentName |-> a,
                             lenOk |-> TRUE, attachOk |-> TRUE]
                /\ ~raised /\ ~stopped
                /\ ReadStep(a) ) =>
                  \A k \in 1..Len(raw) :
                      (WellFormed(raw[k]) /\ raw[k].pos >= reg[a]) =>
                          Cardinality({ i \in 1..Len(emitted') :
                                          EventOfLine(emitted'[i], raw[k]) }) = 1
      ]_vars

(* ------------------------------- C18 ---------------------------------- *)

\* C18: watchAgent on a watcher that is not stopped never raises to its
\* caller, whatever the file system does.
C18_WatchAgentNeverRaises == lastOp.op = "watchAgent" => ~raised

(* ------------------------------- C19 ---------------------------------- *)

\* C19: a source name has a stored handle if and only if an offset is
\* stored for its log file.
C19_RegistryConsistent ==
    \A a \in Agents :
        (a \in DOMAIN watchers) <=> (statusLineLogPath(a) \in DOMAIN fileOffsets)

====
